---- MODULE Spec2Model ----
(***************************************************************************)
(* SimpleVector<Type> (src/simple_vector.h): a growable array over an      *)
(* owning heap buffer (ArrayPtr<Type>).  Two vectors are modelled, so that *)
(* copy, move, swap and assignment have a source and a target.             *)
(*                                                                         *)
(* A vector is a record [data, size, capacity]:                            *)
(*   data      the heap block owned by data_, one entry per ALLOCATED slot *)
(*             (Len(data) is the extent of the allocation);                *)
(*   size      size_;                                                      *)
(*   capacity  capacity_ (a field of its own: the code never reads the     *)
(*             extent of the allocation back from ArrayPtr).               *)
(* Indices are 0-based as in the code; slot i of a block m is m[i+1].      *)
(***************************************************************************)
EXTENDS Integers, Sequences, FiniteSets, TLC

VARIABLES
    vec,   \* vec[x]: the SimpleVector held by variable x of the program
    last,  \* the operation under observation (Idle while there is none)
    hist   \* hist[x]: what PushBack appended to x since SimpleVector()

vars == <<vec, last, hist>>

\* ------------------------------------------------------------------ bounds
\* Total number of element slots the heap can hold at once.
MaxHeap == 4

\* Type(): the value-initialised element.
DefaultValue == 0

\* Type is modelled by two values, Type() and one other: the container never
\* inspects the value of an element (only the comparison operators do).
Vals == {DefaultValue, 1}
VecIds == {1, 2}
Other(x) == 3 - x

Max(p, q) == IF p >= q THEN p ELSE q
Min(p, q) == IF p <= q THEN p ELSE q

\* ------------------------------------------------------- ArrayPtr (buffer)
\* ArrayPtr<Type>(count): a fresh block of count slots; the values of the
\* slots are unspecified until written.
NewArrayPtr(count) == [1..count -> Vals]

\* No value: what a read outside a block yields (no element has it), and
\* the place of an argument or result an operation does not have.
NoValue == 0 - 1

\* ArrayPtr::operator[] (read); no bounds check.  A read past the block is
\* undefined: it yields no value of Type, and the operations below record
\* it (RangeOK).
Get(m, i) == IF i < Len(m) THEN m[i + 1] ELSE NoValue

\* ArrayPtr::operator[] (write); a write past the block does not land in it.
Put(m, i, v) == IF i < Len(m) THEN [m EXCEPT ![i + 1] = v] ELSE m

\* Every slot of [lo, hi) lies inside block m.
RangeOK(m, lo, hi) == lo >= hi \/ hi <= Len(m)

\* std::copy / std::move(first, last, d_first) from block src into another
\* block dst: front to back.
RECURSIVE CopyTo(_, _, _, _, _)
CopyTo(src, first, lst, dst, d) ==
    IF first >= lst THEN dst
    ELSE CopyTo(src, first + 1, lst, Put(dst, d, Get(src, first)), d + 1)

\* The same range moved back to front.
RECURSIVE MoveWithinBackward(_, _, _, _)
MoveWithinBackward(m, first, lst, d) ==
    IF first >= lst THEN m
    ELSE MoveWithinBackward(Put(m, d + (lst - 1 - first), Get(m, lst - 1)),
                            first, lst - 1, d)

\* std::move(first, last, d_first) inside one block: front to back.
RECURSIVE MoveWithin(_, _, _, _)
MoveWithin(m, first, lst, d) ==
    IF first >= lst THEN m
    ELSE MoveWithin(Put(m, d, Get(m, first)), first + 1, lst, d + 1)

\* std::copy_backward(first, last, d_last) inside one block: back to front.
RECURSIVE CopyBackwardWithin(_, _, _, _)
CopyBackwardWithin(m, first, lst, dlast) ==
    IF first >= lst THEN m
    ELSE CopyBackwardWithin(Put(m, dlast - 1, Get(m, lst - 1)),
                            first, lst - 1, dlast - 1)

\* std::fill(first, first + n, v) from slot lo.
RECURSIVE Fill(_, _, _, _)
Fill(m, lo, hi, v) ==
    IF lo >= hi THEN m ELSE Fill(Put(m, lo, v), lo + 1, hi, v)

\* The values an element may hold after it has been moved from: for a
\* trivially copyable Type it keeps its value, a class Type may reset it.
MovedFrom(v) == {v, DefaultValue}

\* ------------------------------------------------------------ SimpleVector
\* SimpleVector() noexcept = default
EmptyVector == [data |-> <<>>, size |-> 0, capacity |-> 0]

GetSize(v) == v.size
GetCapacity(v) == v.capacity
IsEmpty(v) == v.size = 0

\* The extent of the allocation owned by data_.
Allocated(v) == Len(v.data)

\* [begin(), end()): the live elements, read through data_.
Live(v) == [i \in 1..v.size |-> Get(v.data, i - 1)]

\* An outcome of an operation: the vector afterwards, the value returned
\* (an index for an iterator, NoValue for void) and whether some access left the
\* block it was made on (undefined behaviour).
Out(v, ret, ub) == [v |-> v, ret |-> ret, ub |-> ub]

ResizeGrowCapacityExact(v, new_size) == new_size

\* Resize: lines 114-130
ResizeGrowCapacity(v, new_size) == Max(new_size, v.capacity * 2)

ResizeOut(v, new_size) ==
    IF new_size <= v.size
    THEN {Out([v EXCEPT !.size = new_size], NoValue, FALSE)}
    ELSE IF new_size > v.capacity
         THEN LET new_capacity == ResizeGrowCapacity(v, new_size)
              IN  {Out([data     |-> Fill(CopyTo(v.data, 0, v.size, nd, 0),
                                          v.size, new_size, DefaultValue),
                        size     |-> new_size,
                        capacity |-> new_capacity],
                       NoValue,
                       ~RangeOK(v.data, 0, v.size))
                   : nd \in NewArrayPtr(new_capacity)}
         ELSE {Out([v EXCEPT !.data = Fill(v.data, v.size, new_size, DefaultValue),
                             !.size = new_size],
                   NoValue,
                   ~RangeOK(v.data, v.size, new_size))}

\* Slots Resize(new_size) allocates (0 when it keeps the block).
ResizeAlloc(v, new_size) ==
    IF new_size > v.size /\ new_size > v.capacity
    THEN ResizeGrowCapacity(v, new_size) ELSE 0

\* PushBack(const Type&): lines 151-158; PushBack(Type&&): lines 160-167
\* (the same steps; the argument is moved instead of copied).
PushBackOut(v, item) ==
    LET grown == IF v.size = v.capacity
                 THEN ResizeOut(v, v.size + 1)
                 ELSE {Out([v EXCEPT !.size = v.size + 1], NoValue, FALSE)}
    IN  {Out([g.v EXCEPT !.data = Put(g.v.data, g.v.size - 1, item)],
             NoValue,
             g.ub \/ ~RangeOK(g.v.data, g.v.size - 1, g.v.size))
         : g \in grown}

PushBackAlloc(v) == IF v.size = v.capacity THEN ResizeAlloc(v, v.size + 1) ELSE 0

InsertGrowCapacityDoubling(v) == v.capacity * 2

\* The capacity Insert gives a full vector: lines 176/182 and 194/198.
InsertGrowCapacity(v) == IF v.capacity = 0 THEN 1 ELSE v.capacity * 2

InsertAlloc(v) == IF v.size = v.capacity THEN InsertGrowCapacity(v) ELSE 0

\* Insert(ConstIterator, const Type&): lines 173-189; index = pos - begin().
\* On a full vector the elements are copied unshifted into the new block,
\* value is written over slot index of the new block, and copy_backward
\* shifts the suffix of the OLD block (data_ before the swap), which is then
\* released: slot size of the new block is never written.
InsertCopyOut(v, index, value) ==
    IF v.size = v.capacity
    THEN {Out([data     |-> Put(CopyTo(v.data, 0, v.size, nd, 0), index, value),
               size     |-> v.size + 1,
               capacity |-> InsertGrowCapacity(v)],
              index,
              \/ ~RangeOK(v.data, 0, v.size)
              \/ ~RangeOK(nd, index, index + 1)
              \/ (index < v.size /\ ~RangeOK(v.data, index + 1, v.size + 1)))
          : nd \in NewArrayPtr(InsertGrowCapacity(v))}
    ELSE {Out([v EXCEPT !.data = Put(CopyBackwardWithin(v.data, index, v.size,
                                                        v.size + 1),
                                     index, value),
                        !.size = v.size + 1],
              index,
              \/ (index < v.size /\ ~RangeOK(v.data, index, v.size + 1))
              \/ ~RangeOK(v.data, index, index + 1))}

\* The loop of lines 200-202: for i = size_ down to index + 1,
\* data_[i] = std::move(data_[i - 1]).
RECURSIVE ShiftRight(_, _, _)
ShiftRight(m, i, index) ==
    IF i <= index THEN m
    ELSE ShiftRight(Put(m, i, Get(m, i - 1)), i - 1, index)

\* Insert(ConstIterator, Type&&): lines 191-207.
InsertMoveOut(v, index, value) ==
    IF v.size = v.capacity
    THEN {Out([data     |-> Put(CopyTo(v.data, index, v.size,
                                       CopyTo(v.data, 0, index, nd, 0),
                                       index + 1),
                                index, value),
               size     |-> v.size + 1,
               capacity |-> InsertGrowCapacity(v)],
              index,
              \/ ~RangeOK(v.data, 0, v.size)
              \/ ~RangeOK(nd, 0, v.size + 1))
          : nd \in NewArrayPtr(InsertGrowCapacity(v))}
    ELSE {Out([v EXCEPT !.data = Put(ShiftRight(v.data, v.size, index),
                                     index, value),
                        !.size = v.size + 1],
              index,
              \/ (index < v.size /\ ~RangeOK(v.data, index, v.size + 1))
              \/ ~RangeOK(v.data, index, index + 1))}

PopBackOutShrinking(v) ==
    {Out(IF v.size # 0
         THEN [v EXCEPT !.size = v.size - 1, !.capacity = v.capacity - 1]
         ELSE v, NoValue, FALSE)}

PopBackOutUnchecked(v) == {Out([v EXCEPT !.size = v.size - 1], NoValue, FALSE)}

\* PopBack: lines 210-214
PopBackOut(v) ==
    {Out(IF v.size # 0 THEN [v EXCEPT !.size = v.size - 1] ELSE v, NoValue, FALSE)}

ClearOutReleasing(v) == {Out([v EXCEPT !.size = 0, !.capacity = 0], NoValue, FALSE)}

\* Clear: lines 108-110
ClearOut(v) == {Out([v EXCEPT !.size = 0], NoValue, FALSE)}

ErasePreWithEnd(v, index) == index >= 0 /\ index <= v.size /\ v.size # 0

\* The asserts of Erase: lines 218-219 (pos >= begin() && pos < end(); size_).
ErasePre(v, index) == index >= 0 /\ index < v.size /\ v.size # 0

\* Erase: lines 220-223.  std::move shifts [index + 1, size) one slot left;
\* the last slot of the range is left moved-from.
EraseOut(v, index) ==
    LET shifted == MoveWithin(v.data, index + 1, v.size, index)
    IN  {Out([v EXCEPT !.data = IF index + 1 < v.size
                                THEN Put(shifted, v.size - 1, mf)
                                ELSE shifted,
                       !.size = v.size - 1],
             index,
             ~RangeOK(v.data, index, v.size))
         : mf \in MovedFrom(Get(v.data, v.size - 1))}

ReserveOutWithoutCopy(v, new_capacity) ==
    IF new_capacity > v.capacity
    THEN {Out([data |-> temp, size |-> v.size, capacity |-> new_capacity],
              NoValue, FALSE)
          : temp \in NewArrayPtr(new_capacity)}
    ELSE {Out(v, NoValue, FALSE)}

\* Reserve: lines 226-233
ReserveOut(v, new_capacity) ==
    IF new_capacity > v.capacity
    THEN {Out([data     |-> CopyTo(v.data, 0, v.size, temp, 0),
               size     |-> v.size,
               capacity |-> new_capacity],
              NoValue,
              ~RangeOK(v.data, 0, v.size))
          : temp \in NewArrayPtr(new_capacity)}
    ELSE {Out(v, NoValue, FALSE)}

ReserveAlloc(v, new_capacity) ==
    IF new_capacity > v.capacity THEN new_capacity ELSE 0

\* SimpleVector(size_t size): lines 35-39
CountVector(n) ==
    [data |-> [i \in 1..n |-> DefaultValue], size |-> n, capacity |-> n]

\* SimpleVector(size_t size, const Type& value): lines 42-46
FillVector(n, value) ==
    [data |-> [i \in 1..n |-> value], size |-> n, capacity |-> n]

\* SimpleVector(std::initializer_list<Type> init): lines 58-60
ListVector(init) ==
    [data |-> init, size |-> Len(init), capacity |-> Len(init)]

ReservedVectorsWithoutCapacity(c) ==
    {[data |-> nd, size |-> 0, capacity |-> 0] : nd \in NewArrayPtr(c)}

\* SimpleVector(ReserveProxyObj reserve): line 62
ReservedVectors(c) ==
    {[data |-> nd, size |-> 0, capacity |-> c] : nd \in NewArrayPtr(c)}

\* SimpleVector(const SimpleVector& other): lines 132-134.  The block has
\* other.size_ slots; capacity_ is set from other.capacity_.
CopyCapacity(other) == other.capacity

CopyVector(other) ==
    [data     |-> CopyTo(other.data, 0, other.size,
                         [i \in 1..other.size |-> DefaultValue], 0),
     size     |-> other.size,
     capacity |-> CopyCapacity(other)]

\* SimpleVector(SimpleVector&& other): lines 136-139.  The new vector is
\* built as by the copy constructor (from moved elements); the source keeps
\* its block and its capacity_ and is Clear()ed.
MoveSources(other) ==
    {[other EXCEPT !.data = [i \in 1..Len(other.data) |->
                               IF i <= other.size THEN mf[i] ELSE other.data[i]],
                   !.size = 0]
     : mf \in {f \in [1..other.size -> Vals] :
                 \A i \in 1..other.size : f[i] \in MovedFrom(Get(other.data, i - 1))}}

\* operator[]: lines 80-87.  The element read through the reference.
IndexOp(v, index) == Get(v.data, index)

AtOutcomeOffByOne(v, index) ==
    IF index > v.size THEN "out_of_range"
    ELSE IF RangeOK(v.data, index, index + 1) THEN "ok" ELSE "ub"

\* At: lines 91-105.  How the call ends.
AtOutcome(v, index) ==
    IF index >= v.size THEN "out_of_range"
    ELSE IF RangeOK(v.data, index, index + 1) THEN "ok" ELSE "ub"

\* At: the element read through the reference it returns (line 95/104).
AtResult(v, index) ==
    IF AtOutcome(v, index) = "out_of_range" THEN NoValue ELSE Get(v.data, index)

\* operator==: lines 284-287 (std::equal over both ranges).
EqualOp(lhs, rhs) ==
    /\ lhs.size = rhs.size
    /\ \A i \in 0..(lhs.size - 1) : Get(lhs.data, i) = Get(rhs.data, i)

\* std::lexicographical_compare from position i of both ranges.
RECURSIVE LexicographicalCompare(_, _, _)
LexicographicalCompare(lhs, rhs, i) ==
    IF i < lhs.size /\ i < rhs.size
    THEN IF Get(lhs.data, i) < Get(rhs.data, i) THEN TRUE
         ELSE IF Get(rhs.data, i) < Get(lhs.data, i) THEN FALSE
         ELSE LexicographicalCompare(lhs, rhs, i + 1)
    ELSE i = lhs.size /\ i # rhs.size

LessOpBySize(lhs, rhs) == lhs.size < rhs.size

\* operator<: lines 294-297
LessOp(lhs, rhs) == LexicographicalCompare(lhs, rhs, 0)

\* operator!=, operator<=, operator>, operator>=: lines 289-312
NotEqualOp(lhs, rhs) == ~EqualOp(lhs, rhs)
LessEqualOp(lhs, rhs) == ~LessOp(rhs, lhs)
GreaterOp(lhs, rhs) == LessOp(rhs, lhs)
GreaterEqualOp(lhs, rhs) == ~LessOp(lhs, rhs)

\* What the six comparison operators return for lhs and rhs.
CompareAll(lhs, rhs) ==
    [eq |-> EqualOp(lhs, rhs),     ne |-> NotEqualOp(lhs, rhs),
     lt |-> LessOp(lhs, rhs),      le |-> LessEqualOp(lhs, rhs),
     gt |-> GreaterOp(lhs, rhs),   ge |-> GreaterEqualOp(lhs, rhs)]

\* Both ranges read by a comparison lie inside their blocks.
CompareInBlocks(lhs, rhs) ==
    RangeOK(lhs.data, 0, lhs.size) /\ RangeOK(rhs.data, 0, rhs.size)

SwapVectorsKeepingCapacity(this, other) ==
    <<[other EXCEPT !.capacity = this.capacity],
      [this EXCEPT !.capacity = other.capacity]>>

\* swap: lines 236-240.  The pair <<this, other>> afterwards.
SwapVectors(this, other) == <<other, this>>

\* operator=: lines 141-147.  rhs_copy is copy-constructed from rhs and
\* swapped with *this; self-assignment does nothing.
AssignVector(this, rhs, self) == IF self THEN this ELSE CopyVector(rhs)

\* ----------------------------------------------------------- the program
\* A behaviour is a run of a program that constructs and uses two vectors.
\* Its final operation is the one under observation: it is recorded in last
\* with its arguments (x the vector it was called on, y the other vector
\* involved, n a count or index, val a value), the value it returned, how it
\* ended, and the vectors before it (pre).  Every operation of the run can
\* be the observed one (watch); the operations before it leave last Idle.
\*   outcome "ok"      it returned;
\*           "ub"      it read or wrote outside a block: from there on the
\*                     behaviour of the program is undefined;
\*           "assert"  an assert failed: the program was terminated;
\*           "out_of_range"  it threw std::out_of_range (the caller may
\*                     catch it and go on).
\* An operation that ends "ub" or "assert" ends the run, observed or not.
\* hist[x]: the values PushBack appended to vector x since it was
\* default-constructed (fresh) or constructed from Reserve(c) (hint = c),
\* while nothing else was done to it.
NoArg == NoValue

Fresh == [fresh |-> TRUE, vals |-> <<>>, hint |-> NoValue]
Stale == [fresh |-> FALSE, vals |-> <<>>, hint |-> NoValue]
Hinted(c) == [fresh |-> FALSE, vals |-> <<>>, hint |-> c]

Idle == [op |-> "none", x |-> NoArg, y |-> NoArg, n |-> NoArg, val |-> NoArg,
         ret |-> NoArg, outcome |-> "ok", pre |-> <<>>]

Record(op, x, y, n, val, ret, outcome) ==
    [op |-> op, x |-> x, y |-> y, n |-> n, val |-> val, ret |-> ret,
     outcome |-> outcome, pre |-> vec]

Observe(watch, rec) ==
    IF watch \/ rec.outcome \in {"ub", "assert"} THEN rec ELSE Idle

Init ==
    /\ vec = [x \in VecIds |-> EmptyVector]
    /\ last = Idle
    /\ hist = [x \in VecIds |-> Fresh]

\* The program is still running.
Running == last = Idle

\* The heap has room for a block of count slots for vector x beside the
\* block of the other vector.
HeapFits(x, count) == count + Allocated(vec[Other(x)]) <= MaxHeap

\* Variable x is given a newly constructed vector v.
Constructed(op, x, v, n, val, h, watch) ==
    /\ vec' = [vec EXCEPT ![x] = v]
    /\ last' = Observe(watch, Record(op, x, NoArg, n, val, NoArg, "ok"))
    /\ hist' = [hist EXCEPT ![x] = h]

\* A member function was called on vector x with outcome o.
Called(op, x, n, val, o, h, watch) ==
    /\ vec' = [vec EXCEPT ![x] = o.v]
    /\ last' = Observe(watch, Record(op, x, NoArg, n, val, o.ret,
                                     IF o.ub THEN "ub" ELSE "ok"))
    /\ hist' = [hist EXCEPT ![x] = h]

DefaultConstruct(x, watch) ==
    /\ Constructed("SimpleVector()", x, EmptyVector, NoArg, NoArg, Fresh, watch)

CountConstruct(x, n, watch) ==
    /\ HeapFits(x, n)
    /\ Constructed("SimpleVector(size)", x, CountVector(n), n, NoArg, Stale, watch)

FillConstruct(x, n, value, watch) ==
    /\ HeapFits(x, n)
    /\ Constructed("SimpleVector(size,value)", x, FillVector(n, value), n, value,
                   Stale, watch)

ListConstruct(x, init, watch) ==
    /\ HeapFits(x, Len(init))
    /\ Constructed("SimpleVector(init)", x, ListVector(init), Len(init), NoArg,
                   Stale, watch)

ReserveConstruct(x, c, watch) ==
    /\ HeapFits(x, c)
    /\ \E v \in ReservedVectors(c) :
          Constructed("SimpleVector(Reserve)", x, v, c, NoArg, Hinted(c), watch)

\* Variable x is copy-constructed from the other vector.
CopyConstruct(x, watch) ==
    /\ HeapFits(x, vec[Other(x)].size)
    /\ vec' = [vec EXCEPT ![x] = CopyVector(vec[Other(x)])]
    /\ last' = Observe(watch, Record("SimpleVector(const&)", x, Other(x),
                                     NoArg, NoArg, NoArg, "ok"))
    /\ hist' = [hist EXCEPT ![x] = Stale]

\* Variable x is move-constructed from the other vector.
MoveConstruct(x, watch) ==
    /\ HeapFits(x, vec[Other(x)].size)
    /\ \E src \in MoveSources(vec[Other(x)]) :
          vec' = [vec EXCEPT ![x] = CopyVector(vec[Other(x)]), ![Other(x)] = src]
    /\ last' = Observe(watch, Record("SimpleVector(&&)", x, Other(x),
                                     NoArg, NoArg, NoArg, "ok"))
    /\ hist' = [y \in VecIds |-> Stale]

\* vec[x] = vec[y]
Assign(x, y, watch) ==
    /\ x # y => HeapFits(x, vec[y].size)
    /\ vec' = [vec EXCEPT ![x] = AssignVector(vec[x], vec[y], x = y)]
    /\ last' = Observe(watch, Record("operator=", x, y, NoArg, NoArg, NoArg, "ok"))
    /\ hist' = [hist EXCEPT ![x] = Stale]

\* vec[x].swap(vec[Other(x)])
Swap(x, watch) ==
    /\ LET after == SwapVectors(vec[x], vec[Other(x)])
       IN  vec' = [vec EXCEPT ![x] = after[1], ![Other(x)] = after[2]]
    /\ last' = Observe(watch, Record("swap", x, Other(x), NoArg, NoArg, NoArg, "ok"))
    /\ hist' = [y \in VecIds |-> Stale]

Resize(x, new_size, watch) ==
    /\ HeapFits(x, ResizeAlloc(vec[x], new_size))
    /\ \E o \in ResizeOut(vec[x], new_size) :
          Called("Resize", x, new_size, NoArg, o, Stale, watch)

\* hist[x] after a PushBack of item.
Pushed(x, item) ==
    IF hist[x].fresh \/ (hist[x].hint # NoValue /\ Len(hist[x].vals) <= hist[x].hint)
    THEN [hist[x] EXCEPT !.vals = Append(@, item)]
    ELSE Stale

PushBackCopy(x, item, watch) ==
    /\ HeapFits(x, PushBackAlloc(vec[x]))
    /\ \E o \in PushBackOut(vec[x], item) :
          Called("PushBack(const&)", x, NoArg, item, o, Pushed(x, item), watch)

PushBackMove(x, item, watch) ==
    /\ HeapFits(x, PushBackAlloc(vec[x]))
    /\ \E o \in PushBackOut(vec[x], item) :
          Called("PushBack(&&)", x, NoArg, item, o, Pushed(x, item), watch)

InsertCopy(x, index, value, watch) ==
    /\ HeapFits(x, InsertAlloc(vec[x]))
    /\ \E o \in InsertCopyOut(vec[x], index, value) :
          Called("Insert(const&)", x, index, value, o, Stale, watch)

InsertMove(x, index, value, watch) ==
    /\ HeapFits(x, InsertAlloc(vec[x]))
    /\ \E o \in InsertMoveOut(vec[x], index, value) :
          Called("Insert(&&)", x, index, value, o, Stale, watch)

PopBack(x, watch) ==
    /\ \E o \in PopBackOut(vec[x]) :
          Called("PopBack", x, NoArg, NoArg, o, Stale, watch)

Clear(x, watch) ==
    /\ \E o \in ClearOut(vec[x]) :
          Called("Clear", x, NoArg, NoArg, o, Stale, watch)

Erase(x, index, watch) ==
    /\ ErasePre(vec[x], index)
    /\ \E o \in EraseOut(vec[x], index) :
          Called("Erase", x, index, NoArg, o, Stale, watch)

\* Erase with a position outside [begin(), end()) or on an empty vector:
\* the assert of line 218 or 219 fails.
EraseAbort(x, index) ==
    /\ ~ErasePre(vec[x], index)
    /\ vec' = vec
    /\ last' = Record("Erase", x, NoArg, index, NoArg, NoArg, "assert")
    /\ hist' = hist

\* vec[x].At(index), read.
At(x, index, watch) ==
    /\ vec' = vec
    /\ last' = Observe(watch, Record("At", x, NoArg, index, NoArg,
                                     AtResult(vec[x], index),
                                     AtOutcome(vec[x], index)))
    /\ hist' = hist

\* vec[x] op vec[y] for each of the six comparison operators op.
Compare(x, y, watch) ==
    /\ vec' = vec
    /\ last' = Observe(watch, Record("compare", x, y, NoArg, NoArg,
                                     CompareAll(vec[x], vec[y]),
                                     IF CompareInBlocks(vec[x], vec[y])
                                     THEN "ok" ELSE "ub"))
    /\ hist' = hist

ReserveCall(x, new_capacity, watch) ==
    /\ HeapFits(x, ReserveAlloc(vec[x], new_capacity))
    /\ \E o \in ReserveOut(vec[x], new_capacity) :
          Called("Reserve", x, new_capacity, NoArg, o, Stale, watch)

\* The initializer lists the heap has room for.
Lists == UNION {[1..k -> Vals] : k \in 0..MaxHeap}

\* The two vectors of the program are interchangeable: Init and every action
\* are the same with 1 and 2 exchanged.  The observed call is therefore taken
\* to be one on the first vector, with the second as its other operand;
\* calls on the second vector happen all the same, unobserved.
Subject == {1}
Watch(x) == IF x \in Subject THEN BOOLEAN ELSE {FALSE}

\* Every operation, on either vector, observed or not, while the program runs.
\* At and the comparisons change nothing: unobserved they are stuttering
\* steps, which every behaviour allows, so only their observed form is listed.
\* The constructions from nothing, a size, a size and a value, and a list are
\* judged by the vectors they leave, in every state: they are never the
\* observed call.
Next ==
    \/ Running /\ \E x \in VecIds : DefaultConstruct(x, FALSE)
    \/ Running /\ \E x \in VecIds, n \in 0..MaxHeap : CountConstruct(x, n, FALSE)
    \/ Running /\ \E x \in VecIds, n \in 0..MaxHeap, value \in Vals :
          FillConstruct(x, n, value, FALSE)
    \/ Running /\ \E x \in VecIds, init \in Lists : ListConstruct(x, init, FALSE)
    \/ Running /\ \E x \in VecIds : \E watch \in Watch(x), c \in 0..MaxHeap :
          ReserveConstruct(x, c, watch)
    \/ Running /\ \E x \in VecIds : \E watch \in Watch(x) : CopyConstruct(x, watch)
    \/ Running /\ \E x \in VecIds : \E watch \in Watch(x) : MoveConstruct(x, watch)
    \/ Running /\ \E x \in VecIds : \E watch \in Watch(x), y \in VecIds : Assign(x, y, watch)
    \/ Running /\ \E x \in VecIds : \E watch \in Watch(x) : Swap(x, watch)
    \/ Running /\ \E x \in VecIds : \E watch \in Watch(x), n \in 0..MaxHeap :
          Resize(x, n, watch)
    \/ Running /\ \E x \in VecIds : \E watch \in Watch(x), item \in Vals :
          PushBackCopy(x, item, watch)
    \/ Running /\ \E x \in VecIds : \E watch \in Watch(x), item \in Vals :
          PushBackMove(x, item, watch)
    \/ Running /\ \E x \in VecIds : \E watch \in Watch(x), value \in Vals :
          \E index \in 0..vec[x].size : InsertCopy(x, index, value, watch)
    \/ Running /\ \E x \in VecIds : \E watch \in Watch(x), value \in Vals :
          \E index \in 0..vec[x].size : InsertMove(x, index, value, watch)
    \/ Running /\ \E x \in VecIds : \E watch \in Watch(x) : PopBack(x, watch)
    \/ Running /\ \E x \in VecIds : \E watch \in Watch(x) : Clear(x, watch)
    \/ Running /\ \E x \in VecIds : \E watch \in Watch(x) :
          \E index \in 0..vec[x].size : Erase(x, index, watch)
    \/ Running /\ \E x \in VecIds : \E index \in (0 - 1)..(vec[x].size + 1) :
          EraseAbort(x, index)
    \/ Running /\ \E x \in VecIds : \E watch \in Watch(x), n \in 0..MaxHeap :
          ReserveCall(x, n, watch)
    \/ Running /\ \E x \in Subject, index \in 0..MaxHeap : At(x, index, TRUE)
    \/ Running /\ \E x \in Subject, y \in VecIds : Compare(x, y, TRUE)

Spec == Init /\ [][Next]_vars

\* ------------------------------------------------------------- the claims
\* The vector the observed operation was called on, before and after it,
\* and the other vector before and after it.
PreV == last.pre[last.x]
PostV == vec[last.x]
PreOther == last.pre[Other(last.x)]
PostOther == vec[Other(last.x)]

Observed(ops) == last.op \in ops

PushBackOps == {"PushBack(const&)", "PushBack(&&)"}
InsertOps == {"Insert(const&)", "Insert(&&)"}

\* Sequence e with v inserted before its element of index i (0-based).
InsertAt(e, i, v) == SubSeq(e, 1, i) \o <<v>> \o SubSeq(e, i + 1, Len(e))

\* Sequence e without its element of index i (0-based).
RemoveAt(e, i) == SubSeq(e, 1, i) \o SubSeq(e, i + 2, Len(e))

\* 0 for k = 0, otherwise the smallest power of two >= k.
PowerOfTwoCeil(k) ==
    IF k = 0 THEN 0
    ELSE CHOOSE p \in {2 ^ j : j \in 0..k} :
            p >= k /\ \A q \in {2 ^ j : j \in 0..k} : q >= k => p <= q

\* C1: in every reachable state every vector satisfies 0 <= size <= capacity.
C1_SizeWithinCapacity ==
    \A x \in VecIds : 0 <= vec[x].size /\ vec[x].size <= vec[x].capacity

\* An operation grew a vector up to its capacity, and another shrank one
\* below it.
C1_Witness ==
    /\ Observed({"Resize"} \cup InsertOps \cup PushBackOps)
    /\ PostV.size > PreV.size
    /\ PostV.size = PostV.capacity
    /\ PostOther.size < PostOther.capacity

\* C2: in every reachable state the capacity of a vector is the number of
\* slots of the block it owns, so that PushBack, Insert and Resize on their
\* "not full" path (no reallocation) write inside the block only.
C2_CapacityIsAllocation ==
    /\ \A x \in VecIds : vec[x].capacity = Allocated(vec[x])
    /\ (Observed(PushBackOps \cup InsertOps) /\ PreV.size < PreV.capacity)
          => last.outcome # "ub"
    /\ (Observed({"Resize"}) /\ last.n <= PreV.capacity) => last.outcome # "ub"

\* C3: the copy constructor gives a vector with the size and the live
\* elements of the source and with capacity equal to the source's SIZE, and
\* leaves the source unchanged.
C3_CopyCapacityIsSize ==
    Observed({"SimpleVector(const&)"}) =>
        /\ PostV.size = PreOther.size
        /\ Live(PostV) = Live(PreOther)
        /\ PostV.capacity = PreOther.size
        /\ PostOther = PreOther

\* C4: the move constructor leaves the source with size 0 and capacity 0 and
\* no block, and gives the new vector the source's live elements and size.
C4_MoveEmptiesSource ==
    Observed({"SimpleVector(&&)"}) =>
        /\ PostOther.size = 0
        /\ PostOther.capacity = 0
        /\ Allocated(PostOther) = 0
        /\ PostV.size = PreOther.size
        /\ Live(PostV) = Live(PreOther)

\* C5: Insert at index i (0 <= i <= size), by either overload, on a full or
\* a not full vector, leaves the live sequence with the value inserted
\* before the former element i, makes the size one more and returns index i.
C5_InsertPlacesValue ==
    Observed(InsertOps) =>
        /\ Live(PostV) = InsertAt(Live(PreV), last.n, last.val)
        /\ PostV.size = PreV.size + 1
        /\ last.ret = last.n

\* C6: Insert on a full vector of capacity c sets the capacity to
\* max(1, 2c) (1 for c = 0); Insert on a vector that is not full leaves the
\* capacity unchanged.
C6_InsertCapacity ==
    Observed(InsertOps) =>
        PostV.capacity = IF PreV.size = PreV.capacity
                         THEN Max(1, 2 * PreV.capacity)
                         ELSE PreV.capacity

\* Insert into a vector of capacity 0 gave capacity 1.
C6_Witness ==
    /\ Observed(InsertOps)
    /\ PreV.capacity = 0
    /\ PostV.capacity = 1

\* C7: after Resize(n), from any state, size = n, the elements below
\* min(old size, n) are unchanged and those of [old size, n) are Type().
C7_ResizeResult ==
    Observed({"Resize"}) =>
        /\ PostV.size = last.n
        /\ \A i \in 1..Min(PreV.size, last.n) : Live(PostV)[i] = Live(PreV)[i]
        /\ \A i \in (PreV.size + 1)..last.n : Live(PostV)[i] = DefaultValue

\* C8: Resize(n) with n > capacity sets the capacity to max(2 capacity, n);
\* PushBack on a full vector sets it to max(2 capacity, size + 1); neither
\* changes it otherwise.  Hence after k PushBacks on a default-constructed
\* vector the capacity is 0 for k = 0 and else the least power of two >= k.
C8_GrowthRule ==
    /\ Observed({"Resize"}) =>
          PostV.capacity = IF last.n > PreV.capacity
                           THEN Max(2 * PreV.capacity, last.n)
                           ELSE PreV.capacity
    /\ Observed(PushBackOps) =>
          PostV.capacity = IF PreV.size = PreV.capacity
                           THEN Max(2 * PreV.capacity, PreV.size + 1)
                           ELSE PreV.capacity
    /\ \A x \in VecIds :
          hist[x].fresh => vec[x].capacity = PowerOfTwoCeil(Len(hist[x].vals))

\* The third PushBack on a default-constructed vector doubled capacity 2.
C8_Witness ==
    /\ Observed(PushBackOps)
    /\ hist[last.x].fresh
    /\ Len(hist[last.x].vals) = 3
    /\ PreV.capacity = 2
    /\ PostV.capacity = 4

\* C9: PushBack(v) on any vector makes the size one more, makes v the last
\* live element and keeps the former live elements in order; hence after k
\* PushBacks on a default-constructed vector the live sequence is the k
\* pushed values in order.
C9_PushBackAppends ==
    /\ Observed(PushBackOps) =>
          /\ PostV.size = PreV.size + 1
          /\ Live(PostV) = Append(Live(PreV), last.val)
    /\ \A x \in VecIds :
          hist[x].fresh => /\ vec[x].size = Len(hist[x].vals)
                           /\ Live(vec[x]) = hist[x].vals

\* C10: Erase at index i (0 <= i < size) removes element i from the live
\* sequence, keeping the others in order, makes the size one less, leaves
\* the capacity unchanged and returns index i.
C10_EraseRemoves ==
    (Observed({"Erase"}) /\ last.outcome # "assert") =>
        /\ last.outcome = "ok"
        /\ Live(PostV) = RemoveAt(Live(PreV), last.n)
        /\ PostV.size = PreV.size - 1
        /\ PostV.capacity = PreV.capacity
        /\ last.ret = last.n

\* Erase removed the middle one of three elements, the
\* returned index holding the former following element.
C10_Witness ==
    /\ Observed({"Erase"})
    /\ last.outcome = "ok"
    /\ PreV.size = 3
    /\ last.n = 1
    /\ Live(PreV)[2] # Live(PreV)[3]
    /\ Live(PostV)[last.ret + 1] = Live(PreV)[3]

\* C11: At(i) throws std::out_of_range whenever i >= size (also for size 0
\* and for size <= i < capacity) and leaves both vectors as they were; for
\* i < size it returns normally, with the element operator[] gives.
C11_AtChecksBounds ==
    Observed({"At"}) =>
        /\ vec = last.pre
        /\ IF last.n >= PreV.size
           THEN last.outcome = "out_of_range"
           ELSE /\ last.outcome = "ok"
                /\ last.ret = IndexOp(PreV, last.n)
                /\ last.ret = Live(PreV)[last.n + 1]

\* At threw for an index between the size and the capacity of a vector
\* that is not empty.
C11_Witness ==
    /\ Observed({"At"})
    /\ PreV.size > 0
    /\ last.n >= PreV.size
    /\ last.n < PreV.capacity
    /\ last.outcome = "out_of_range"

\* C12: Reserve(c) with c > capacity sets capacity to exactly c and leaves
\* size and the live elements, values and order, unchanged; Reserve(c) with
\* c <= capacity changes nothing at all.  The other vector is untouched.
C12_ReserveKeepsElements ==
    Observed({"Reserve"}) =>
        /\ last.outcome = "ok"
        /\ PostOther = PreOther
        /\ IF last.n > PreV.capacity
           THEN /\ PostV.capacity = last.n
                /\ PostV.size = PreV.size
                /\ Live(PostV) = Live(PreV)
           ELSE PostV = PreV

\* Reserve grew a vector that holds two elements, not all of them the default.
C12_Witness ==
    /\ Observed({"Reserve"})
    /\ last.n > PreV.capacity
    /\ PreV.size >= 2
    /\ \E i \in 1..PreV.size : Live(PreV)[i] # DefaultValue
    /\ PostV.capacity = last.n
    /\ Live(PostV) = Live(PreV)

\* Reserve was asked for no more than the capacity of a non-empty vector.
C12_WitnessNoOp ==
    /\ Observed({"Reserve"})
    /\ last.n <= PreV.capacity
    /\ PreV.size > 0
    /\ PostV = PreV

\* C13: Erase on an empty vector, or at a position outside [begin, end),
\* end itself included, ends in the failed assertion: no recoverable error
\* and no change of state.  Erase never takes size below 0.
C13_EraseContract ==
    Observed({"Erase"}) =>
        /\ (PreV.size = 0 \/ last.n < 0 \/ last.n >= PreV.size) =>
              /\ last.outcome = "assert"
              /\ vec = last.pre
        /\ PostV.size >= 0

\* Erase was called at end() of a vector that holds elements.
C13_Witness ==
    /\ Observed({"Erase"})
    /\ PreV.size > 0
    /\ last.n = PreV.size
    /\ last.outcome = "assert"

\* Erase was called on an empty vector at begin().
C13_WitnessEmpty ==
    /\ Observed({"Erase"})
    /\ PreV.size = 0
    /\ last.n = 0
    /\ last.outcome = "assert"

\* C14: PopBack on a non-empty vector takes exactly one from size and leaves
\* capacity and the remaining live elements unchanged; on an empty vector it
\* does nothing and raises nothing.
C14_PopBackDropsLast ==
    Observed({"PopBack"}) =>
        /\ last.outcome = "ok"
        /\ PostOther = PreOther
        /\ PostV.capacity = PreV.capacity
        /\ IF PreV.size > 0
           THEN /\ PostV.size = PreV.size - 1
                /\ Live(PostV) = SubSeq(Live(PreV), 1, PreV.size - 1)
           ELSE PostV = PreV

\* PopBack dropped the last of at least two elements.
C14_Witness ==
    /\ Observed({"PopBack"})
    /\ PreV.size >= 2
    /\ PostV.size = PreV.size - 1
    /\ Live(PreV)[1] # Live(PreV)[PreV.size]

\* PopBack was called on an empty vector that has capacity.
C14_WitnessEmpty ==
    /\ Observed({"PopBack"})
    /\ PreV.size = 0
    /\ PreV.capacity > 0
    /\ PostV = PreV

\* C15: Clear sets size to 0 and leaves capacity and the allocated block
\* unchanged, whatever the vector held; a second Clear changes nothing.
C15_ClearKeepsCapacity ==
    Observed({"Clear"}) =>
        /\ last.outcome = "ok"
        /\ PostV.size = 0
        /\ PostV.capacity = PreV.capacity
        /\ PostV.data = PreV.data
        /\ PostOther = PreOther
        /\ \A o \in ClearOut(PostV) : o.v = PostV /\ ~o.ub

\* Clear emptied a vector that held elements.
C15_Witness ==
    /\ Observed({"Clear"})
    /\ PreV.size > 0
    /\ PostV.size = 0
    /\ PostV.capacity > 0

\* Sequence s is lexicographically less than sequence t: they agree on their
\* first k elements, and there s ends while t goes on, or s continues with
\* the smaller element.
LexLess(s, t) ==
    \E k \in 0..Min(Len(s), Len(t)) :
        /\ SubSeq(s, 1, k) = SubSeq(t, 1, k)
        /\ k < Len(t)
        /\ (k < Len(s) => s[k + 1] < t[k + 1])

\* The operands of the observed comparison.
LhsV == last.pre[last.x]
RhsV == last.pre[last.y]

\* C16: for any two vectors a and b, whatever their capacities and the
\* values in slots at or beyond size: a == b iff their live sequences are
\* equal; a < b iff the live sequence of a is lexicographically less than
\* that of b; a != b iff not a == b, a > b iff b < a, a <= b iff not b < a,
\* a >= b iff not a < b; and exactly one of a < b, a == b, a > b holds.
C16_ComparisonOperators ==
    Observed({"compare"}) =>
        /\ last.outcome = "ok"
        /\ vec = last.pre
        /\ last.ret.eq <=> (Live(LhsV) = Live(RhsV))
        /\ last.ret.lt <=> LexLess(Live(LhsV), Live(RhsV))
        /\ last.ret.ne <=> ~last.ret.eq
        /\ last.ret.gt <=> LexLess(Live(RhsV), Live(LhsV))
        /\ last.ret.le <=> ~last.ret.gt
        /\ last.ret.ge <=> ~last.ret.lt
        /\ \/ last.ret.lt /\ ~last.ret.eq /\ ~last.ret.gt
           \/ ~last.ret.lt /\ last.ret.eq /\ ~last.ret.gt
           \/ ~last.ret.lt /\ ~last.ret.eq /\ last.ret.gt

\* A vector was compared with a longer one that it is a proper prefix of,
\* of another capacity and with other values beyond size.
C16_Witness ==
    /\ Observed({"compare"})
    /\ LhsV.size > 0
    /\ LhsV.size < RhsV.size
    /\ Live(LhsV) = SubSeq(Live(RhsV), 1, LhsV.size)
    /\ LhsV.capacity # RhsV.capacity
    /\ last.ret.lt /\ ~last.ret.eq /\ last.ret.ne

\* Two vectors of the same live elements compared equal although their
\* capacities and the values in their slots beyond size differ.
C16_WitnessStale ==
    /\ Observed({"compare"})
    /\ last.x # last.y
    /\ LhsV.size > 0
    /\ Live(LhsV) = Live(RhsV)
    /\ LhsV.capacity # RhsV.capacity
    /\ LhsV.data # RhsV.data
    /\ last.ret.eq /\ last.ret.le /\ last.ret.ge

\* The longer vector compared less than the shorter one.
C16_WitnessShorterGreater ==
    /\ Observed({"compare"})
    /\ LhsV.size > RhsV.size
    /\ RhsV.size > 0
    /\ last.ret.lt /\ last.ret.le /\ ~last.ret.gt

\* C17: a.swap(b) exchanges the complete states of the two vectors: a has
\* b's former size, capacity and elements and b has a's; a second swap
\* restores both.
C17_SwapExchanges ==
    Observed({"swap"}) =>
        /\ last.outcome = "ok"
        /\ PostV = PreOther
        /\ PostOther = PreV
        /\ SwapVectors(PostV, PostOther) = <<PreV, PreOther>>

\* Two vectors of different sizes, capacities and elements were swapped.
C17_Witness ==
    /\ Observed({"swap"})
    /\ PreV.size # PreOther.size
    /\ PreV.capacity # PreOther.capacity
    /\ PreV.size > 0 /\ PreOther.size > 0
    /\ PreV.capacity > PreV.size
    /\ PostV = PreOther

\* C18: every element write of Insert lands below the allocated extent of
\* the buffer it writes to; on a full vector, at an index below size,
\* nothing is written to slot size of the old buffer.
C18_InsertWritesInBlock ==
    (/\ Observed(InsertOps)
     /\ PreV.size = PreV.capacity
     /\ Allocated(PreV) = PreV.capacity
     /\ last.n < PreV.size) => last.outcome # "ub"

\* C19: a vector constructed from Reserve(c) has size 0, capacity c and no
\* live elements; each of the next c PushBack calls leaves capacity at c,
\* with the pushed values as the live elements, in order; the push after
\* those is the first to reallocate.
C19_ReserveHint ==
    /\ Observed({"SimpleVector(Reserve)"}) =>
          /\ PostV.size = 0
          /\ PostV.capacity = last.n
          /\ Allocated(PostV) = last.n
          /\ Live(PostV) = <<>>
    /\ \A x \in VecIds :
          hist[x].hint # NoValue =>
              /\ Len(hist[x].vals) <= hist[x].hint =>
                    /\ vec[x].capacity = hist[x].hint
                    /\ Allocated(vec[x]) = hist[x].hint
                    /\ vec[x].size = Len(hist[x].vals)
                    /\ Live(vec[x]) = hist[x].vals
              /\ Len(hist[x].vals) = hist[x].hint + 1 =>
                    /\ vec[x].capacity > hist[x].hint
                    /\ Live(vec[x]) = hist[x].vals

\* The second of two PushBack calls filled a vector made from Reserve(2).
C19_Witness ==
    /\ Observed(PushBackOps)
    /\ hist[last.x].hint = 2
    /\ Len(hist[last.x].vals) = 2
    /\ hist[last.x].vals[1] # hist[last.x].vals[2]
    /\ PostV.capacity = 2
    /\ PostV.size = 2

\* The third PushBack into a vector made from Reserve(2) reallocated.
C19_WitnessBeyond ==
    /\ Observed(PushBackOps)
    /\ hist[last.x].hint = 2
    /\ Len(hist[last.x].vals) = 3
    /\ PostV.capacity > 2

\* C20: copy-assignment a = b leaves a with the size and live elements of b
\* and b unchanged, and a's capacity equal to its allocated slot count;
\* self-assignment leaves a unchanged.
C20_AssignCopies ==
    Observed({"operator="}) =>
        /\ last.outcome = "ok"
        /\ vec[last.y] = last.pre[last.y]
        /\ PostV.size = last.pre[last.y].size
        /\ Live(PostV) = Live(last.pre[last.y])
        /\ EqualOp(PostV, vec[last.y])
        /\ PostV.capacity = Allocated(PostV)
        /\ last.x = last.y => PostV = PreV

====
